---- MODULE Spec2Model ----
(***************************************************************************)
(* mkwheelhouse: build wheels with `pip wheel`, sync them to an S3 bucket  *)
(* and regenerate index.html.  Model of src/mkwheelhouse.py.               *)
(*                                                                         *)
(* Strings the code inspects (bucket references, keys, file names, glob    *)
(* patterns) are sequences of one-character strings, so that startswith,   *)
(* endswith, lstrip, the regular expression, urlparse and glob are         *)
(* computed character by character.                                        *)
(***************************************************************************)
EXTENDS Integers, Sequences, FiniteSets, TLC

(***************************************************************************)
(* Bounds of the model.                                                    *)
(***************************************************************************)
MaxRuns == 2        \* invocations of the command line, one after the other
MaxExclude == 2     \* number of -e/--exclude options
PageSize == 2       \* keys per list_objects_v2 page (1000 on S3)

(***************************************************************************)
(* Character-level string helpers (Python str methods).                    *)
(***************************************************************************)
StartsWith(s, p) == Len(p) <= Len(s) /\ SubSeq(s, 1, Len(p)) = p

EndsWith(s, p) == Len(p) <= Len(s) /\ SubSeq(s, Len(s) - Len(p) + 1, Len(s)) = p

Drop(s, n) == SubSeq(s, n + 1, Len(s))

\* str.lstrip(c): remove every leading occurrence of the character c
RECURSIVE LStrip(_, _)
LStrip(s, c) == IF s # <<>> /\ Head(s) = c THEN LStrip(Tail(s), c) ELSE s

\* str.find for one character, 1-based, from position `from`; 0 = not found
RECURSIVE FindFrom(_, _, _)
FindFrom(s, c, from) ==
    IF from > Len(s) THEN 0
    ELSE IF s[from] = c THEN from
    ELSE FindFrom(s, c, from + 1)

Find(s, c) == FindFrom(s, c, 1)

\* str.rfind for one character, 1-based; 0 = not found
RECURSIVE RFindFrom(_, _, _)
RFindFrom(s, c, from) ==
    IF from < 1 THEN 0
    ELSE IF s[from] = c THEN from
    ELSE RFindFrom(s, c, from - 1)

RFind(s, c) == RFindFrom(s, c, Len(s))

\* position of the first character of s that is in the set cs, Len(s)+1 if none
RECURSIVE FirstOf(_, _, _)
FirstOf(s, cs, from) ==
    IF from > Len(s) THEN Len(s) + 1
    ELSE IF s[from] \in cs THEN from
    ELSE FirstOf(s, cs, from + 1)

\* code points of the characters that occur in the model (S3 lists keys in
\* UTF-8 binary order)
Ord == [c \in {"*", ".", "/", "3", ":", ";", "?", "a", "b", "c", "d", "e",
               "h", "i", "l", "m", "n", "s", "t", "w", "x", "z"} |->
          CASE c = "*" -> 42 [] c = "." -> 46 [] c = "/" -> 47 [] c = "3" -> 51
            [] c = ":" -> 58 [] c = ";" -> 59 [] c = "?" -> 63 [] c = "a" -> 97
            [] c = "b" -> 98 [] c = "c" -> 99 [] c = "d" -> 100 [] c = "e" -> 101
            [] c = "h" -> 104 [] c = "i" -> 105 [] c = "l" -> 108 [] c = "m" -> 109
            [] c = "n" -> 110 [] c = "s" -> 115 [] c = "t" -> 116 [] c = "w" -> 119
            [] c = "x" -> 120 [] c = "z" -> 122]

RECURSIVE StrLess(_, _)
StrLess(s, t) ==
    IF t = <<>> THEN FALSE
    ELSE IF s = <<>> THEN TRUE
    ELSE IF Head(s) # Head(t) THEN Ord[Head(s)] < Ord[Head(t)]
    ELSE StrLess(Tail(s), Tail(t))

(***************************************************************************)
(* Bucket.__init__: the bucket reference is given a leading "//" unless it *)
(* starts with "//" or "s3://", and is then split by urlparse.             *)
(***************************************************************************)
SchemeChars == {"a", "b", "c", "d", "e", "h", "i", "l", "m", "n", "s", "t",
                "w", "x", "z", "3", ".", "+", "-"}

\* re.match(r'^(s3:)?//', url)
MatchesS3Slashes(url) ==
    \/ StartsWith(url, <<"/", "/">>)
    \/ StartsWith(url, <<"s", "3", ":", "/", "/">>)

\* urlsplit, step 1: a leading run of scheme characters ended by ":" is the scheme
SplitScheme(url) ==
    LET i == Find(url, ":")
    IN  IF i > 1 /\ \A k \in 1..(i - 1) : url[k] \in SchemeChars
        THEN [scheme |-> SubSeq(url, 1, i - 1), rest |-> Drop(url, i)]
        ELSE [scheme |-> <<>>, rest |-> url]

\* urlsplit, step 2: after "//" the netloc runs to the first of "/", "?", "#"
SplitNetloc(rest) ==
    IF StartsWith(rest, <<"/", "/">>)
    THEN LET d == FirstOf(rest, {"/", "?", "#"}, 3)
         IN  [netloc |-> SubSeq(rest, 3, d - 1), rest |-> Drop(rest, d - 1)]
    ELSE [netloc |-> <<>>, rest |-> rest]

\* urlsplit, step 3: the path ends at the first "#" or "?"
CutQueryFragment(rest) == SubSeq(rest, 1, FirstOf(rest, {"?", "#"}, 1) - 1)

\* urllib.parse.uses_params: the schemes whose path has ";parameters";
\* it contains the empty scheme and does not contain "s3"
UsesParams(scheme) == scheme = <<>>

\* urllib.parse._splitparams: cut the path at the first ";" of its last segment
SplitParams(path) ==
    LET i == IF Find(path, "/") > 0
             THEN FindFrom(path, ";", RFind(path, "/"))
             ELSE Find(path, ";")
    IN  IF i = 0 THEN path ELSE SubSeq(path, 1, i - 1)

\* urlparse(url): netloc and path
UrlParse(url) ==
    LET s == SplitScheme(url)
        n == SplitNetloc(s.rest)
        p == CutQueryFragment(n.rest)
    IN  [scheme |-> s.scheme,
         netloc |-> n.netloc,
         path   |-> IF UsesParams(s.scheme) /\ Find(p, ";") > 0
                    THEN SplitParams(p) ELSE p]

\* Bucket.__init__(url): self.name, self.prefix
BucketInit(url) ==
    LET u == UrlParse(IF MatchesS3Slashes(url) THEN url ELSE <<"/", "/">> \o url)
    IN  [name |-> u.netloc, prefix |-> LStrip(u.path, "/")]

(***************************************************************************)
(* glob.glob(os.path.join(build_dir, exclusion)) for an exclusion that     *)
(* names no directory: fnmatch on the names of the build directory.        *)
(***************************************************************************)
\* fnmatch.translate + re.match: "*" is any run of characters, "?" is one
RECURSIVE FnMatch(_, _)
FnMatch(pat, fname) ==
    IF pat = <<>> THEN fname = <<>>
    ELSE IF Head(pat) = "*"
         THEN FnMatch(Tail(pat), fname)
              \/ (fname # <<>> /\ FnMatch(pat, Tail(fname)))
    ELSE IF fname = <<>> THEN FALSE
    ELSE IF Head(pat) = "?" THEN FnMatch(Tail(pat), Tail(fname))
    ELSE Head(pat) = Head(fname) /\ FnMatch(Tail(pat), Tail(fname))

\* glob.has_magic
HasMagic(pat) == \E i \in 1..Len(pat) : pat[i] \in {"*", "?", "["}

\* glob._ishidden
IsHidden(s) == s # <<>> /\ Head(s) = "."

\* glob.glob on one directory: a pattern without magic names one file; a
\* pattern with magic skips dot files unless it starts with a dot itself
GlobMatch(pat, fname) ==
    IF HasMagic(pat)
    THEN FnMatch(pat, fname) /\ (IsHidden(pat) \/ ~IsHidden(fname))
    ELSE pat = fname

\* build_wheels with the loop left after the first exclusion
RemoveFirstExcluded(dir, exclusions) ==
    IF exclusions = <<>> THEN dir
    ELSE {f \in dir : ~GlobMatch(Head(exclusions), f)}

\* build_wheels, lines 132-135: for each exclusion in turn, remove its matches
RECURSIVE RemoveExcluded(_, _)
RemoveExcluded(dir, exclusions) ==
    IF exclusions = <<>> THEN dir
    ELSE RemoveExcluded({f \in dir : ~GlobMatch(Head(exclusions), f)},
                        Tail(exclusions))

(***************************************************************************)
(* spawn: subprocess.check_call raises CalledProcessError on a non-zero    *)
(* exit status.                                                            *)
(***************************************************************************)
\* spawn with subprocess.call: the exit status is returned, nothing is raised
SpawnCall(exitCode) == "none"

Spawn(exitCode) == IF exitCode # 0 THEN "CalledProcessError" ELSE "none"

(***************************************************************************)
(* The S3 client, as far as the program uses it.  A bucket is a function   *)
(* from keys to object bodies.                                             *)
(***************************************************************************)
IndexKey == <<"i", "n", "d", "e", "x", ".", "h", "t", "m", "l">>

WhlSuffix == <<".", "w", "h", "l">>

\* '<!DOCTYPE html><html></html>'
Placeholder == [kind |-> "placeholder", elems |-> <<>>]

FileBody == [kind |-> "file", elems |-> <<>>]

\* head_object: 200 when the key exists, 404 when it does not, and any other
\* error (modelled by 403) whatever the bucket holds
HeadResponses(b, key) ==
    (IF key \in DOMAIN b THEN {"200"} ELSE {"404"}) \cup {"403"}

\* has_key with a bare except: every error means "absent"
HasKeyAnyError(resp) ==
    IF resp = "200" THEN [raised |-> FALSE, ret |-> TRUE]
    ELSE [raised |-> FALSE, ret |-> FALSE]

\* Bucket.has_key: True on success, False on a 404, any other error is raised
HasKey(resp) ==
    IF resp = "200" THEN [raised |-> FALSE, ret |-> TRUE]
    ELSE IF resp # "404" THEN [raised |-> TRUE, ret |-> FALSE]
    ELSE [raised |-> FALSE, ret |-> FALSE]

\* mimetypes.guess_type(key)[0]
GuessType(key) ==
    IF EndsWith(key, <<".", "h", "t", "m", "l">>) THEN "text/html" ELSE "None"

\* put_object: Bucket and Key are required parameters; a call without Key is
\* rejected by the client's parameter validation and stores nothing
PutObject(b, kw) ==
    IF "Key" \in DOMAIN kw
    THEN [raised |-> "none",
          bucket |-> [k \in DOMAIN b \cup {kw.Key} |->
                         IF k = kw.Key THEN kw.Body ELSE b[k]]]
    ELSE [raised |-> "ParamValidationError", bucket |-> b]

\* Bucket.put(body, key, acl): the key is used for the content type only and
\* is not passed to put_object
Put(b, bname, body, key, acl) ==
    PutObject(b, [Bucket |-> bname, Body |-> body, ACL |-> acl,
                  ContentType |-> GuessType(key)])

\* Bucket.generate_url: a presigned GET url of the key, computed locally
GenerateUrl(bname, key) == [bucket |-> bname, key |-> key]

\* the keys of a set in UTF-8 binary order
RECURSIVE SortKeys(_)
SortKeys(S) ==
    IF S = {} THEN <<>>
    ELSE LET m == CHOOSE k \in S : \A j \in S \ {k} : StrLess(k, j)
         IN  <<m>> \o SortKeys(S \ {m})

\* what the backend lists for the request: every key, or those under Prefix
Listing(b, kw) ==
    SortKeys({k \in DOMAIN b : "Prefix" \in DOMAIN kw => StartsWith(k, kw.Prefix)})

\* list_objects_v2: one page of at most PageSize keys, starting where the
\* continuation token says.  Contents is missing from a page without keys,
\* NextContinuationToken from the last page.
ListObjectsV2(b, kw) ==
    LET all == Listing(b, kw)
        from == IF "ContinuationToken" \in DOMAIN kw THEN kw.ContinuationToken ELSE 1
        to == IF from + PageSize - 1 < Len(all) THEN from + PageSize - 1 ELSE Len(all)
        page == SubSeq(all, from, to)
    IN  CASE page # <<>> /\ to < Len(all) ->
               [Contents |-> page, NextContinuationToken |-> to + 1]
          [] page # <<>> /\ to >= Len(all) -> [Contents |-> page]
          [] page = <<>> /\ to < Len(all) -> [NextContinuationToken |-> to + 1]
          [] OTHER -> [KeyCount |-> 0]

\* Bucket.list, lines 83-86: the first request
ListKwargs(bname, prefix) ==
    IF prefix # <<>> THEN [Bucket |-> bname, Prefix |-> prefix]
    ELSE [Bucket |-> bname]

\* Bucket.list, lines 90-93: the keys of one page that the generator yields
RECURSIVE YieldPage(_, _, _)
YieldPage(contents, prefix, suffix) ==
    IF contents = <<>> THEN <<>>
    ELSE (IF StartsWith(Head(contents), prefix) /\ EndsWith(Head(contents), suffix)
          THEN <<Head(contents)>> ELSE <<>>)
         \o YieldPage(Tail(contents), prefix, suffix)

\* Bucket.list, lines 98-101: the request for the next page
NextKwargs(kw, resp) ==
    [f \in DOMAIN kw \cup {"ContinuationToken"} |->
        IF f = "ContinuationToken" THEN resp.NextContinuationToken ELSE kw[f]]

\* Bucket.make_index, lines 116-119: an anchor and a line break for each key
RECURSIVE IndexElems(_, _)
IndexElems(bname, keys) ==
    IF keys = <<>> THEN <<>>
    ELSE << [tag |-> "a", href |-> GenerateUrl(bname, Head(keys)), text |-> Head(keys)],
            [tag |-> "br"] >>
         \o IndexElems(bname, Tail(keys))

\* aws s3 sync local_dir s3://name/prefix: the key a local file is copied to
SyncKey(prefix, f) ==
    IF prefix = <<>> \/ prefix[Len(prefix)] = "/" THEN prefix \o f
    ELSE prefix \o <<"/">> \o f

\* the bucket after the files `up` of the build directory were copied
Uploaded(b, prefix, up) ==
    LET new == {SyncKey(prefix, f) : f \in up}
    IN  [k \in DOMAIN b \cup new |-> IF k \in new THEN FileBody ELSE b[k]]

(***************************************************************************)
(* Inputs: the command line and what the bucket holds before the first run *)
(***************************************************************************)
S3Scheme == <<"s", "3", ":", "/", "/">>

\* bucket references without a scheme: b, b/a, b//a, b/a;x
BareRefs == { <<"b">>, <<"b", "/", "a">>, <<"b", "/", "/", "a">>,
              <<"b", "/", "a", ";", "x">> }

Refs == BareRefs \cup {S3Scheme \o r : r \in BareRefs}

\* what a build can write into the wheel directory: nothing, b.whl,
\* b.whl and c.whl, or b.whl, c.whl and d.whl
Builds == { {},
            { <<"b", ".", "w", "h", "l">> },
            { <<"b", ".", "w", "h", "l">>, <<"c", ".", "w", "h", "l">> },
            { <<"b", ".", "w", "h", "l">>, <<"c", ".", "w", "h", "l">>,
              <<"d", ".", "w", "h", "l">> } }

\* exclusion globs: b*, c.whl, ?.whl
Patterns == { <<"b", "*">>, <<"c", ".", "w", "h", "l">>, <<"?", ".", "w", "h", "l">> }

RECURSIVE SeqsUpTo(_, _)
SeqsUpTo(S, n) ==
    IF n = 0 THEN {<<>>}
    ELSE LET shorter == SeqsUpTo(S, n - 1)
         IN  shorter \cup {Append(q, x) : q \in shorter, x \in S}

\* keys already in the bucket: index.html, a/c.whl, a/n.txt, z.whl
OldKeys == { IndexKey,
             <<"a", "/", "c", ".", "w", "h", "l">>,
             <<"a", "/", "n", ".", "t", "x", "t">>,
             <<"z", ".", "w", "h", "l">> }

OldBody(k) == IF k = IndexKey THEN Placeholder ELSE FileBody

\* run(), line 168
UrlLine == "mkwheelhouse: index written to"

\* parse_args, line 155
Diagnostic == "mkwheelhouse: detected error in subprocess, aborting!"

NoDir == [exists |-> FALSE, files |-> {}]

NoKwargs == [Bucket |-> <<>>]

VARIABLES
    url,          \* args.bucket
    exclude,      \* args.exclude
    acl,          \* args.acl
    wheels,       \* the files `pip wheel` writes for pip_wheel_args
    bucket,       \* the S3 bucket: key -> body
    runs,         \* invocations started so far
    log,          \* one record per finished invocation
    pc,           \* position in run()
    name,         \* Bucket.name
    prefix,       \* Bucket.prefix
    headResp,     \* answer to head_object in this run, "none" before
    buildExit,    \* exit status of pip wheel, -1 before
    syncExit,     \* exit status of aws s3 sync, -1 before
    syncCalls,    \* aws s3 sync commands spawned in this run
    buildDir,     \* the mkdtemp directory of this run
    atStart,      \* the bucket when this run started
    atSync,       \* the bucket when sync was invoked
    kwargs,       \* Bucket.list: arguments of the next list_objects_v2 call
    listCalls,    \* Bucket.list: list_objects_v2 calls made
    pages,        \* Bucket.list: the Contents of the pages received
    yielded,      \* Bucket.list: keys yielded so far
    doc,          \* make_index: elements written into <html> so far
    putLog,       \* Bucket.put calls of this run, by the step that made them
    raised,       \* exception that ended run(), "none" otherwise
    stdout,       \* lines printed to standard output
    stderr,       \* lines printed to standard error
    exitStatus    \* exit status of the process, -1 while it runs

argVars == <<url, exclude, acl, wheels>>

listVars == <<kwargs, listCalls, pages, yielded, doc>>

procVars == <<headResp, buildExit, syncExit, syncCalls, buildDir, atStart, atSync>>

vars == <<url, exclude, acl, wheels, bucket, runs, log, pc, name, prefix,
          headResp, buildExit, syncExit, syncCalls, buildDir, atStart, atSync,
          kwargs, listCalls, pages, yielded, doc, putLog, raised, stdout,
          stderr, exitStatus>>

Init ==
    /\ url \in Refs
    /\ exclude \in SeqsUpTo(Patterns, MaxExclude)
    /\ acl = "private"
    /\ wheels \in Builds
    /\ \E ks \in SUBSET OldKeys : bucket = [k \in ks |-> OldBody(k)]
    /\ runs = 0
    /\ log = <<>>
    /\ pc = "idle"
    /\ name = <<>>
    /\ prefix = <<>>
    /\ headResp = "none"
    /\ buildExit = -1
    /\ syncExit = -1
    /\ syncCalls = 0
    /\ buildDir = NoDir
    /\ atStart = bucket
    /\ atSync = bucket
    /\ kwargs = NoKwargs
    /\ listCalls = 0
    /\ pages = <<>>
    /\ yielded = <<>>
    /\ doc = <<>>
    /\ putLog = <<>>
    /\ raised = "none"
    /\ stdout = <<>>
    /\ stderr = <<>>
    /\ exitStatus = -1

(***************************************************************************)
(* parse_args, lines 152-156, and the interpreter's exit: how run() ending *)
(* with the exception exc (or "none") ends the process.                    *)
(***************************************************************************)
ParseArgsExit(exc) ==
    IF exc = "none" THEN [stderr |-> <<>>, exit |-> 0]
    ELSE IF exc = "CalledProcessError"
    THEN [stderr |-> <<Diagnostic>>,
          exit |-> 0]
    ELSE [stderr |-> <<"Traceback">>, exit |-> 1]

\* the process ends; b is the bucket it leaves behind
Finish(exc, b) ==
    /\ pc' = "ended"
    /\ raised' = exc
    /\ stderr' = stderr \o ParseArgsExit(exc).stderr
    /\ exitStatus' = ParseArgsExit(exc).exit
    /\ log' = Append(log, [exit |-> ParseArgsExit(exc).exit,
                           raised |-> exc,
                           hasIndex |-> IndexKey \in DOMAIN b,
                           index |-> IF IndexKey \in DOMAIN b THEN b[IndexKey]
                                     ELSE Placeholder])

(***************************************************************************)
(* run(), line 160: a new invocation of the same command line              *)
(***************************************************************************)
Start ==
    /\ pc \in {"idle", "ended"}
    /\ runs < MaxRuns
    /\ runs' = runs + 1
    /\ name' = BucketInit(url).name
    /\ prefix' = BucketInit(url).prefix
    /\ pc' = "bootstrap"
    /\ headResp' = "none"
    /\ buildExit' = -1
    /\ syncExit' = -1
    /\ syncCalls' = 0
    /\ buildDir' = NoDir
    /\ atStart' = bucket
    /\ atSync' = bucket
    /\ kwargs' = NoKwargs
    /\ listCalls' = 0
    /\ pages' = <<>>
    /\ yielded' = <<>>
    /\ doc' = <<>>
    /\ putLog' = <<>>
    /\ raised' = "none"
    /\ stdout' = <<>>
    /\ stderr' = <<>>
    /\ exitStatus' = -1
    /\ UNCHANGED <<argVars, bucket, log>>

(***************************************************************************)
(* run(), lines 161-163: has_key('index.html'), the placeholder, index_url *)
(***************************************************************************)
Bootstrap ==
    /\ pc = "bootstrap"
    /\ \E resp \in HeadResponses(bucket, IndexKey) :
         LET hk == HasKey(resp)
             put == Put(bucket, name, Placeholder, IndexKey, acl)
         IN  /\ headResp' = resp
             /\ IF hk.raised
                THEN /\ Finish("ClientError", bucket)
                     /\ UNCHANGED <<bucket, putLog>>
                ELSE IF ~hk.ret
                THEN /\ putLog' = Append(putLog, "bootstrap")
                     /\ bucket' = put.bucket
                     /\ IF put.raised # "none"
                        THEN Finish(put.raised, put.bucket)
                        ELSE /\ pc' = "build"
                             /\ UNCHANGED <<raised, stderr, exitStatus, log>>
                ELSE /\ pc' = "build"
                     /\ UNCHANGED <<bucket, putLog, raised, stderr, exitStatus, log>>
    /\ UNCHANGED <<argVars, runs, name, prefix, buildExit, syncExit, syncCalls,
                   buildDir, atStart, atSync, listVars, stdout>>

(***************************************************************************)
(* build_wheels, lines 124-136: mkdtemp, pip wheel, the exclusions         *)
(***************************************************************************)
Build ==
    /\ pc = "build"
    /\ \E code \in {0, 1} :
         /\ buildExit' = code
         /\ stdout' = Append(stdout, "=> pip wheel")
         /\ IF Spawn(code) # "none"
            THEN /\ \E left \in SUBSET wheels :
                       buildDir' = [exists |-> TRUE, files |-> left]
                 /\ Finish(Spawn(code), bucket)
            ELSE /\ buildDir' = [exists |-> TRUE,
                                 files |-> RemoveExcluded(wheels, exclude)]
                 /\ pc' = "sync"
                 /\ UNCHANGED <<raised, stderr, exitStatus, log>>
    /\ UNCHANGED <<argVars, bucket, runs, name, prefix, headResp, syncExit,
                   syncCalls, atStart, atSync, listVars, putLog>>

(***************************************************************************)
(* Bucket.sync, lines 103-107: aws s3 sync of the build directory.  A      *)
(* command that fails may have copied any part of the directory.           *)
(***************************************************************************)
Sync ==
    /\ pc = "sync"
    /\ atSync' = bucket
    /\ syncCalls' = syncCalls + 1
    /\ stdout' = Append(stdout, "=> aws s3 sync")
    /\ \E code \in {0, 1} :
         /\ syncExit' = code
         /\ IF Spawn(code) # "none"
            THEN \E up \in SUBSET buildDir.files :
                    /\ bucket' = Uploaded(bucket, prefix, up)
                    /\ Finish(Spawn(code), Uploaded(bucket, prefix, up))
                    /\ UNCHANGED kwargs
            ELSE /\ bucket' = Uploaded(bucket, prefix, buildDir.files)
                 /\ pc' = "index"
                 /\ kwargs' = ListKwargs(name, prefix)
                 /\ UNCHANGED <<raised, stderr, exitStatus, log>>
    /\ UNCHANGED <<argVars, runs, name, prefix, headResp, buildExit, buildDir,
                   atStart, listCalls, pages, yielded, doc, putLog>>

(***************************************************************************)
(* Bucket.make_index driving Bucket.list('.whl'), lines 88-101 and         *)
(* 116-119: one list_objects_v2 call and the keys of its page              *)
(***************************************************************************)
ListPage ==
    /\ pc = "index"
    /\ listCalls' = listCalls + 1
    /\ LET resp == ListObjectsV2(bucket, kwargs)
       IN  IF "Contents" \notin DOMAIN resp
           THEN /\ Finish("KeyError", bucket)
                /\ UNCHANGED <<kwargs, pages, yielded, doc>>
           ELSE /\ pages' = Append(pages, resp.Contents)
                /\ yielded' = yielded \o YieldPage(resp.Contents, prefix, WhlSuffix)
                /\ doc' = doc \o IndexElems(name, YieldPage(resp.Contents, prefix, WhlSuffix))
                /\ IF "NextContinuationToken" \in DOMAIN resp
                   THEN /\ kwargs' = NextKwargs(kwargs, resp)
                        /\ UNCHANGED pc
                   ELSE /\ pc' = "put"
                        /\ UNCHANGED kwargs
                /\ UNCHANGED <<raised, stderr, exitStatus, log>>
    /\ UNCHANGED <<argVars, bucket, runs, name, prefix, procVars, putLog, stdout>>

(***************************************************************************)
(* run(), lines 166-168: put the index, remove the directory, report       *)
(***************************************************************************)
PutIndex ==
    /\ pc = "put"
    /\ LET put == Put(bucket, name, [kind |-> "index", elems |-> doc], IndexKey, acl)
       IN  /\ putLog' = Append(putLog, "index")
           /\ bucket' = put.bucket
           /\ IF put.raised # "none"
              THEN /\ Finish(put.raised, put.bucket)
                   /\ UNCHANGED <<buildDir, stdout>>
              ELSE /\ buildDir' = NoDir
                   /\ stdout' = Append(stdout, UrlLine)
                   /\ Finish("none", put.bucket)
    /\ UNCHANGED <<argVars, runs, name, prefix, headResp, buildExit, syncExit,
                   syncCalls, atStart, atSync, listVars>>

Next == Start \/ Bootstrap \/ Build \/ Sync \/ ListPage \/ PutIndex

Spec == Init /\ [][Next]_vars

(***************************************************************************)
(* Properties                                                              *)
(***************************************************************************)
Range(q) == {q[i] : i \in DOMAIN q}

\* the keys an index document links to
DocKeys(body) == {body.elems[i].text : i \in {j \in DOMAIN body.elems : body.elems[j].tag = "a"}}

\* the wheels under the prefix that the bucket b holds, in listing order
WheelsUnder(b, pre) ==
    SortKeys({k \in DOMAIN b : StartsWith(k, pre) /\ EndsWith(k, WhlSuffix)})

RECURSIVE Flatten(_)
Flatten(pp) == IF pp = <<>> THEN <<>> ELSE Head(pp) \o Flatten(Tail(pp))

\* number of pages of a listing of n keys
NumPages(n) == IF n = 0 THEN 1 ELSE (n + PageSize - 1) \div PageSize

\* the reference with the scheme removed, or added
Counterpart(u) == IF StartsWith(u, S3Scheme) THEN Drop(u, Len(S3Scheme)) ELSE S3Scheme \o u

\* C1: when pip wheel exits non-zero the run ends there: no sync command is
\* spawned, no listing is made, index.html is not put again, and the bucket
\* holds its earlier objects unchanged plus at most the bootstrap index.html.
C1_FailedBuildUploadsNothing ==
    buildExit > 0 =>
        /\ pc = "ended"
        /\ syncCalls = 0
        /\ listCalls = 0
        /\ "index" \notin Range(putLog)
        /\ DOMAIN atStart \subseteq DOMAIN bucket
        /\ \A k \in DOMAIN bucket :
              IF k \in DOMAIN atStart THEN bucket[k] = atStart[k]
              ELSE k = IndexKey /\ bucket[k] = Placeholder

C1_Witness ==
    /\ pc = "ended"
    /\ buildExit = 1
    /\ buildDir.files # {}
    /\ raised = "CalledProcessError"

\* C2: a run that found no index.html (has_key answered False) has, once it
\* is past the bootstrap step, an index.html in the bucket.
C2_BootstrapCreatesIndex ==
    (headResp = "404" /\ pc # "bootstrap") => IndexKey \in DOMAIN bucket

\* C3: a run in which no subprocess and no storage request failed and which
\* has put the regenerated index ends with an index.html that holds one
\* anchor and one line break for each key that starts with the prefix and
\* ends with .whl, and nothing else.
C3_IndexListsWheels ==
    (/\ pc = "ended"
     /\ headResp \in {"200", "404"} /\ buildExit = 0 /\ syncExit = 0
     /\ "index" \in Range(putLog)) =>
        /\ IndexKey \in DOMAIN bucket
        /\ bucket[IndexKey] =
              [kind |-> "index", elems |-> IndexElems(name, WheelsUnder(bucket, prefix))]

\* C4: a process in which pip wheel or aws s3 sync failed prints the
\* diagnostic to standard error and exits non-zero; a process in which
\* nothing failed prints the index url and exits with status zero.
C4_ExitStatus ==
    pc = "ended" =>
        /\ (buildExit > 0 \/ syncExit > 0) =>
              (Diagnostic \in Range(stderr) /\ exitStatus # 0)
        /\ (headResp \in {"200", "404"} /\ buildExit = 0 /\ syncExit = 0) =>
              (UrlLine \in Range(stdout) /\ exitStatus = 0)

\* C5: when Bucket.list has stopped, it has made one call for each page of
\* the backend's listing, it has yielded the keys of all pages that start
\* with the prefix and end with the suffix, in page order, and it has not
\* raised.
C5_ListFollowsPages ==
    (listCalls > 0 /\ (pc = "put" \/ raised = "KeyError")) =>
        /\ raised # "KeyError"
        /\ listCalls = NumPages(Len(Listing(bucket, ListKwargs(name, prefix))))
        /\ Flatten(pages) = Listing(bucket, ListKwargs(name, prefix))
        /\ yielded = YieldPage(Flatten(pages), prefix, WhlSuffix)

\* C6: when the sync is about to be invoked, the build directory holds
\* exactly the built files that match none of the exclusion patterns.
C6_ExcludedBeforeSync ==
    pc = "sync" =>
        /\ buildDir.exists
        /\ buildDir.files \subseteq wheels
        /\ \A f \in wheels :
              f \in buildDir.files <=>
                 ~(\E i \in 1..Len(exclude) : GlobMatch(exclude[i], f))

C6_Witness ==
    /\ pc = "sync"
    /\ Len(exclude) = 2
    /\ buildDir.files # {}
    /\ buildDir.files # wheels
    /\ \E f \in wheels : ~GlobMatch(exclude[1], f) /\ GlobMatch(exclude[2], f)

\* C7: after two invocations without exclusions, in which no subprocess and
\* no storage request failed, the bucket has an index.html after each, and
\* the two documents link to the same set of keys.
C7_SecondRunSameIndex ==
    (/\ Len(log) = 2
     /\ exclude = <<>>
     /\ \A i \in 1..2 : log[i].raised \notin {"CalledProcessError", "ClientError"}) =>
        /\ log[1].hasIndex
        /\ log[2].hasIndex
        /\ DocKeys(log[1].index) = DocKeys(log[2].index)

\* C8: the name and the prefix parsed from the reference are those parsed
\* from the same reference with the scheme added (or removed), and the
\* prefix does not start with a slash.
C8_SchemeIrrelevant ==
    pc # "idle" =>
        /\ name = BucketInit(Counterpart(url)).name
        /\ prefix = BucketInit(Counterpart(url)).prefix
        /\ ~StartsWith(prefix, <<"/">>)

\* C9: when aws s3 sync exits non-zero the run ends there: the index is not
\* listed, rendered or put, index.html is as it was when sync was invoked,
\* the build directory still exists, the index url is not printed and the
\* sync command was spawned once.
C9_FailedSyncStops ==
    syncExit > 0 =>
        /\ pc = "ended"
        /\ raised = "CalledProcessError"
        /\ listCalls = 0
        /\ doc = <<>>
        /\ "index" \notin Range(putLog)
        /\ (IndexKey \in DOMAIN bucket) = (IndexKey \in DOMAIN atSync)
        /\ IndexKey \in DOMAIN bucket => bucket[IndexKey] = atSync[IndexKey]
        /\ buildDir.exists
        /\ UrlLine \notin Range(stdout)
        /\ syncCalls = 1

C9_Witness ==
    /\ pc = "ended"
    /\ syncExit = 1
    /\ bucket # atSync
    /\ buildDir.files # {}

\* C10: has_key answers True exactly on a successful probe and False exactly
\* on a 404; on any other error the run ends with that error, and without a
\* put; the placeholder is put only after a 404 for a key the bucket lacked.
C10_OnlyNotFoundIsAbsent ==
    /\ headResp = "403" =>
          (pc = "ended" /\ raised = "ClientError" /\ putLog = <<>> /\ bucket = atStart)
    /\ headResp = "200" =>
          (IndexKey \in DOMAIN atStart /\ "bootstrap" \notin Range(putLog))
    /\ "bootstrap" \in Range(putLog) =>
          (headResp = "404" /\ IndexKey \notin DOMAIN atStart)
    /\ (headResp = "404" /\ pc # "bootstrap") => "bootstrap" \in Range(putLog)

C10_Witness ==
    /\ pc = "ended"
    /\ headResp = "403"
    /\ IndexKey \in DOMAIN bucket
    /\ raised = "ClientError"

====
